---- MODULE Spec2Model ----
(***************************************************************************)
(* Model of the translation path of the BUCOLIN translator demo:           *)
(*   src/config.py  PublicConfig, SecureConfig                             *)
(*   src/app.py     MockTranslationService, APITranslationService,         *)
(*                  TurkishTranslator, and the session slot written by     *)
(*                  main_app and cleared by admin_panel                    *)
(*   src/admin.py   admin_required                                         *)
(*                                                                         *)
(* Text is a sequence of characters (one-character strings; the three      *)
(* non-ASCII code points of the mock table are named "U+221A", "U+00BA",   *)
(* "U+00DF").  A result is a function from field names to values, so that  *)
(* "field present" is membership in DOMAIN.  Python floats are IEEE-754    *)
(* doubles and are modelled exactly, see the section on doubles.           *)
(***************************************************************************)
EXTENDS Integers, Sequences, FiniteSets, TLC

(***************************************************************************)
(* Bounds of the model.                                                    *)
(***************************************************************************)
\* every text over ShortAlphabet of at most MaxShortLen characters is an input
MaxShortLen == 3
\* inputs made of vocabulary words have at most MaxWords words
MaxWords == 2
\* the POSTs of one call take between 0 and MaxLatencyMs milliseconds in all
MaxLatencyMs == 1
\* inputs that repeat one unknown word repeat it at most MaxRepeat times
MaxRepeat == 10

(***************************************************************************)
(* IEEE-754 doubles.  Every double the program computes with is 0 or a     *)
(* multiple of 2^-54 that is at least 1/4, so a double is modelled by the  *)
(* natural number N = value * 2^54, kept in three limbs <<a, b, c>> with   *)
(* N = a * 2^40 + b * 2^20 + c (TLC integers are 32 bits wide).  A double  *)
(* has 53 significant bits: results are rounded to nearest, ties to even.  *)
(***************************************************************************)
Limb == 2 ^ 20

\* carry propagation: limbs b and c back into 0 .. Limb - 1
DNorm(t) ==
    LET b1 == t[2] + (t[3] \div Limb)
    IN  << t[1] + (b1 \div Limb), b1 % Limb, t[3] % Limb >>

\* number of low bits a value with high limb a loses to fit 53 bits:
\* N < 2^53 exactly when a < 2^13
RECURSIVE Drop(_)
Drop(a) == IF a < 2 ^ 13 THEN 0 ELSE 1 + Drop(a \div 2)

\* round the exact value t to 53 significant bits, ties to even
Round53(t) ==
    LET d    == Drop(t[1])
        m    == 2 ^ d
        rem  == t[3] % m
        odd  == (t[3] \div m) % 2 = 1
        up   == 2 * rem > m \/ (2 * rem = m /\ odd)
    IN  IF d = 0 THEN t
        ELSE DNorm(<< t[1], t[2], (t[3] - rem) + (IF up THEN m ELSE 0) >>)

\* x + y of two doubles
DAdd(x, y) == Round53(DNorm(<< x[1] + y[1], x[2] + y[2], x[3] + y[3] >>))

\* x / n of a double by the integer n (0 < n < 2^11), for x = 0 or x / n >= 1/4
DDiv(x, n) ==
    LET q1  == x[1] \div n
        t2  == (x[1] % n) * Limb + x[2]
        q2  == t2 \div n
        t3  == (t2 % n) * Limb + x[3]
        q3  == t3 \div n
        r3  == t3 % n
        d   == Drop(q1)
        m   == 2 ^ d
        low == q3 % m
        odd == (q3 \div m) % 2 = 1
        up  == 2 * (low * n + r3) > m * n
               \/ (2 * (low * n + r3) = m * n /\ odd)
    IN  DNorm(<< q1, q2, (q3 - low) + (IF up THEN m ELSE 0) >>)

\* x <= y and x < y of two doubles
DLeq(x, y) ==
    \/ x[1] < y[1]
    \/ x[1] = y[1] /\ x[2] < y[2]
    \/ x[1] = y[1] /\ x[2] = y[2] /\ x[3] <= y[3]

DLess(x, y) == DLeq(x, y) /\ x # y

\* the literals of the program, as doubles
DZero == << 0, 0, 0 >>
DOne == << 16384, 0, 0 >>
D_0_2 == << 3276, 838860, 838861 >>
D_0_3 == << 4915, 209715, 209715 >>

(***************************************************************************)
(* Text: Python str operations on sequences of characters.                 *)
(***************************************************************************)
\* str.isspace of one character (the whitespace str.strip and str.split use)
IsSpace(c) == c \in {" ", "\t", "\n"}

UpperCase == << "A", "B", "C", "D", "E", "F", "G", "H", "I", "J", "K", "L", "M",
                "N", "O", "P", "Q", "R", "S", "T", "U", "V", "W", "X", "Y", "Z" >>
LowerCase == << "a", "b", "c", "d", "e", "f", "g", "h", "i", "j", "k", "l", "m",
                "n", "o", "p", "q", "r", "s", "t", "u", "v", "w", "x", "y", "z" >>

\* str.lower of one character: A-Z map to a-z, every other character of the
\* model (digits, brackets, whitespace, U+221A, U+00BA, U+00DF) is unchanged
LowerChar(c) ==
    IF \E i \in 1..26 : UpperCase[i] = c
    THEN LowerCase[CHOOSE i \in 1..26 : UpperCase[i] = c]
    ELSE c

\* text.lower()
Lower(text) == [i \in 1..Len(text) |-> LowerChar(text[i])]

\* text.strip(): leading and trailing whitespace removed.  lead and trail
\* are the numbers of whitespace characters before the first and after the
\* last character that is not whitespace
Strip(text) ==
    LET n     == Len(text)
        front == {k \in 0..(n - 1) : ~ IsSpace(text[k + 1])}
        back  == {k \in 0..(n - 1) : ~ IsSpace(text[n - k])}
        lead  == CHOOSE k \in front : \A j \in front : k <= j
        trail == CHOOSE k \in back : \A j \in back : k <= j
    IN  IF front = {} THEN << >> ELSE SubSeq(text, lead + 1, n - trail)

\* text.split(): the maximal runs of non-whitespace characters, in order
Split(text) ==
    LET n      == Len(text)
        starts == {i \in 1..n : ~ IsSpace(text[i]) /\ (i = 1 \/ IsSpace(text[i - 1]))}
        ends   == {i \in 1..n : ~ IsSpace(text[i]) /\ (i = n \/ IsSpace(text[i + 1]))}
        kth(S, k) == CHOOSE i \in S : Cardinality({j \in S : j < i}) = k - 1
    IN  [k \in 1..Cardinality(starts) |-> SubSeq(text, kth(starts, k), kth(ends, k))]

\* sep.join(words)
RECURSIVE Join(_, _)
Join(sep, words) ==
    IF words = << >> THEN << >>
    ELSE IF Len(words) = 1 THEN words[1]
    ELSE words[1] \o sep \o Join(sep, Tail(words))

(***************************************************************************)
(* Results: dictionaries, as functions from field names to values.         *)
(***************************************************************************)
Has(result, field) == field \in DOMAIN result

\* an assignment skipped on a failure result
SetFieldUnlessFailed(result, field, value) ==
    IF Has(result, "success") /\ result.success = FALSE THEN result
    ELSE (field :> value) @@ result
\* result[field] = value (the field is added when absent, replaced when present)
SetField(result, field, value) == (field :> value) @@ result

(***************************************************************************)
(* PublicConfig (src/config.py).  Times are in milliseconds.               *)
(***************************************************************************)
MAX_TEXT_LENGTH == 5000
\* MOCK_PROCESSING_TIME = 0.8 (seconds)
MOCK_PROCESSING_TIME == 800
\* MOCK_CONFIDENCE_THRESHOLD = 0.7
MOCK_CONFIDENCE_THRESHOLD == << 11468, 838860, 838860 >>

(***************************************************************************)
(* MockTranslationService (src/app.py).                                    *)
(***************************************************************************)
mock_translations ==
       (<< "m", "e", "r", "h", "a", "b", "a" >> :> << "h", "e", "l", "l", "o" >>)
    @@ (<< "s", "e", "l", "a", "m" >> :> << "g", "r", "e", "e", "t", "i", "n", "g", "s" >>)
    @@ (<< "k", "i", "t", "a", "p" >> :> << "b", "o", "o", "k" >>)
    @@ (<< "e", "v" >> :> << "h", "o", "u", "s", "e" >>)
    @@ (<< "s", "u" >> :> << "w", "a", "t", "e", "r" >>)
    @@ (<< "y", "e", "m", "e", "k" >> :> << "f", "o", "o", "d" >>)
    @@ (<< "g", "U+221A", "U+00BA", "z", "e", "l" >> :> << "b", "e", "a", "u", "t", "i", "f", "u", "l" >>)
    @@ (<< "b", "U+221A", "U+00BA", "y", "U+221A", "U+00BA", "k" >> :> << "b", "i", "g" >>)
    @@ (<< "k", "U+221A", "U+00BA", "U+221A", "U+00DF", "U+221A", "U+00BA", "k" >> :> << "s", "m", "a", "l", "l" >>)

\* a recognized word scored like an unrecognized one
KnownScoreLow == D_0_3
\* the score appended for a recognized word, and for an unrecognized one
KnownScore == DAdd(MOCK_CONFIDENCE_THRESHOLD, D_0_2)
UnknownScore == D_0_3

\* sum(scores) as CPython before 3.12 computes it: one rounded addition per
\* element, left to right, starting from the integer 0
RECURSIVE NaiveSum(_)
NaiveSum(scores) ==
    IF scores = << >> THEN DZero
    ELSE DAdd(NaiveSum(SubSeq(scores, 1, Len(scores) - 1)), scores[Len(scores)])

\* the exact (unrounded) sum of the scores
RECURSIVE ExactSum(_)
ExactSum(scores) ==
    IF scores = << >> THEN DZero
    ELSE LET s == ExactSum(Tail(scores))
             x == Head(scores)
         IN  DNorm(<< s[1] + x[1], s[2] + x[2], s[3] + x[3] >>)

\* sum(scores) as CPython 3.12 and later computes it (Neumaier compensated
\* summation): the rounding errors of the additions are accumulated exactly
\* and added back at the end, which gives the exact sum rounded once
CompensatedSum(scores) == Round53(ExactSum(scores))

\* sum(confidence_scores): which of the two depends on the interpreter
PySum(compensated, scores) ==
    IF compensated THEN CompensatedSum(scores) ELSE NaiveSum(scores)

\* a mock that refuses a text without words, as translate_text does
MockTranslateRejectsBlank(compensated, text) ==
    LET words == Split(Lower(text))
        known(w) == w \in DOMAIN mock_translations
        scores == [i \in 1..Len(words) |-> IF known(words[i]) THEN KnownScore ELSE UnknownScore]
    IN  IF words = << >>
        THEN [ success |-> FALSE, error |-> << "Please enter some text to translate" >> ]
        ELSE [ success          |-> TRUE,
               original_text    |-> text,
               translated_text  |->
                   Join(<< " " >>, [i \in 1..Len(words) |->
                                       IF known(words[i]) THEN mock_translations[words[i]]
                                       ELSE << "[" >> \o words[i] \o << "]" >>]),
               confidence       |-> DDiv(PySum(compensated, scores), Len(scores)),
               processing_time  |-> MOCK_PROCESSING_TIME,
               word_count       |-> Len(words),
               recognized_words |-> Cardinality({i \in 1..Len(words) : known(words[i])}) ]
\* a mock that reports the text it worked on, lower-cased, as original_text
MockTranslateLowerOriginal(compensated, text) ==
    LET words == Split(Lower(text))
        known(w) == w \in DOMAIN mock_translations
        scores == [i \in 1..Len(words) |-> IF known(words[i]) THEN KnownScore ELSE UnknownScore]
    IN  [ success          |-> TRUE,
          original_text    |-> Lower(text),
          translated_text  |->
              Join(<< " " >>, [i \in 1..Len(words) |->
                                  IF known(words[i]) THEN mock_translations[words[i]]
                                  ELSE << "[" >> \o words[i] \o << "]" >>]),
          confidence       |-> IF scores # << >>
                               THEN DDiv(PySum(compensated, scores), Len(scores))
                               ELSE DZero,
          processing_time  |-> MOCK_PROCESSING_TIME,
          word_count       |-> Len(words),
          recognized_words |-> Cardinality({i \in 1..Len(words) : known(words[i])}) ]
\* MockTranslationService.translate(text); the sleep of MOCK_PROCESSING_TIME
\* it starts with is taken by the action that calls it
MockTranslate(compensated, text) ==
    LET words == Split(Lower(text))
        known(w) == w \in DOMAIN mock_translations
        translated_words ==
            [i \in 1..Len(words) |->
                IF known(words[i]) THEN mock_translations[words[i]]
                ELSE << "[" >> \o words[i] \o << "]" >>]
        confidence_scores ==
            [i \in 1..Len(words) |->
                IF known(words[i]) THEN KnownScore ELSE UnknownScore]
        avg_confidence ==
            IF confidence_scores # << >>
            THEN DDiv(PySum(compensated, confidence_scores), Len(confidence_scores))
            ELSE DZero
        translation == Join(<< " " >>, translated_words)
    IN  [ success          |-> TRUE,
          original_text    |-> text,
          translated_text  |-> translation,
          confidence       |-> avg_confidence,
          processing_time  |-> MOCK_PROCESSING_TIME,
          word_count       |-> Len(words),
          recognized_words |-> Cardinality({i \in 1..Len(words) : known(words[i])}) ]

(***************************************************************************)
(* APITranslationService (src/app.py): what one POST can come to.          *)
(***************************************************************************)
\* a retry ceiling one too low
max_retries_low == 3 - 1
max_retries == 3

\* the two failure messages of the remote responder
ErrUnavailable == << "Translation service is currently unavailable" >>
ErrConnect == << "Cannot connect to translation service" >>

\* JSON objects a 200 response may carry: the responder does not look at them
Bodies ==
    { [ success |-> TRUE, translated_text |-> << "o", "k" >>, confidence |-> << 8192, 0, 0 >> ],
      [ success |-> TRUE, translated_text |-> << "o", "k" >>, confidence |-> << 24576, 0, 0 >>,
        processing_time |-> 7, service_used |-> "upstream" ],
      [ success |-> TRUE ],
      [ success |-> FALSE, error |-> << "upstream detail" >> ],
      [ success |-> FALSE ],
      << >> }

\* the status codes of the model other than 200: another 2xx, a 4xx and a 5xx
ErrorStatuses == { 204, 404, 500 }

NoBody == << >>

\* requests.post raised a RequestException (connection error, timeout)
TransportFailure == [ kind |-> "transport", status |-> 0, json |-> "none", body |-> NoBody ]

\* requests.post returned a response: its status, and its body, which is a
\* JSON object ("dict"), some other JSON value ("nondict") or not JSON ("invalid")
Response(s, j, b) == [ kind |-> "response", status |-> s, json |-> j, body |-> b ]

Responses ==
    { Response(200, "dict", b) : b \in Bodies }
    \cup { Response(200, j, NoBody) : j \in { "nondict", "invalid" } }
    \cup { Response(s, "dict", [ success |-> FALSE, error |-> << "upstream detail" >> ]) :
             s \in ErrorStatuses }
    \cup { Response(s, "invalid", NoBody) : s \in ErrorStatuses }

Outcomes == { TransportFailure } \cup Responses

\* a backoff that grows by a constant step: 1 s, 3 s
BackoffLinear(attempt) == 2 * attempt + 1
\* time.sleep(2 ** attempt): the seconds slept after failed attempt number attempt
BackoffSeconds(attempt) == 2 ^ attempt

\* a try body that also raises on a 5xx status, as response.raise_for_status()
\* before the status test would
RaisesOnServerError(json_caught, o) ==
    \/ o.kind = "transport"
    \/ o.kind = "response" /\ o.status = 200 /\ o.json = "invalid" /\ json_caught
    \/ o.kind = "response" /\ o.status >= 500
\* whether the body of the try statement raises a RequestException for this
\* outcome: requests.post did (transport failure), or response.json() did on a
\* 200 whose body is not JSON, which is a RequestException from requests 2.27
\* on (JSONDecodeError derives from it) and a plain ValueError before
RaisesRequestException(json_caught, o) ==
    \/ o.kind = "transport"
    \/ o.kind = "response" /\ o.status = 200 /\ o.json = "invalid" /\ json_caught

\* whether an exception leaves translate uncaught: response.json() raising a
\* ValueError (requests before 2.27), or result["processing_time"] = ...
\* raising a TypeError on a JSON value that is not an object
RaisesUncaught(json_caught, o) ==
    /\ o.kind = "response"
    /\ o.status = 200
    /\ \/ o.json = "nondict"
       \/ o.json = "invalid" /\ ~ json_caught

\* a responder that hands on the error message of the upstream body
ResponseResultLeaksDetail(o, processing_time) ==
    IF o.status = 200
    THEN SetField(o.body, "processing_time", processing_time)
    ELSE [ success |-> FALSE,
           error |-> IF o.json = "dict" /\ Has(o.body, "error") THEN o.body.error
                     ELSE ErrUnavailable,
           processing_time |-> processing_time ]
\* a responder that keeps the processing_time of a body that has one
ResponseResultKeepsUpstreamTime(o, processing_time) ==
    IF o.status = 200
    THEN o.body @@ ("processing_time" :> processing_time)
    ELSE [ success |-> FALSE, error |-> ErrUnavailable, processing_time |-> processing_time ]
\* the dictionary translate returns for a response (lines 76-85)
ResponseResult(o, processing_time) ==
    IF o.status = 200
    THEN SetField(o.body, "processing_time", processing_time)
    ELSE [ success |-> FALSE, error |-> ErrUnavailable, processing_time |-> processing_time ]

\* the dictionary translate returns when the last attempt raised (lines 89-93)
ExhaustedResult(processing_time) ==
    [ success |-> FALSE, error |-> ErrConnect, processing_time |-> processing_time ]

(***************************************************************************)
(* TurkishTranslator (src/app.py).                                         *)
(***************************************************************************)
MockServiceName == "Mock Service (Development)"
ApiServiceName == "AI Model (Production)"

\* the two responders the wrong way round
SelectServiceSwapped(use_mock) == IF use_mock THEN "api" ELSE "mock"
\* __init__: the responder chosen for the value of SecureConfig.use_mock_service()
SelectService(use_mock) == IF use_mock THEN "mock" ELSE "api"
SelectServiceName(use_mock) == IF use_mock THEN MockServiceName ELSE ApiServiceName

ErrEmpty == << "Please enter some text to translate" >>
ErrTooLong ==
    << "Text too long. Maximum ", ToString(MAX_TEXT_LENGTH), " characters allowed." >>

\* an emptiness test that forgets strip(), and a length test off by one
IsBlankNoStrip(text) == text = << >>
TooLongOffByOne(text) == Len(text) >= MAX_TEXT_LENGTH
\* an emptiness test made after the length test
IsBlankWithinLimit(text) == Strip(text) = << >> /\ Len(text) <= MAX_TEXT_LENGTH
\* not text.strip()
IsBlank(text) == Strip(text) = << >>
\* len(text) > PublicConfig.MAX_TEXT_LENGTH
TooLong(text) == Len(text) > MAX_TEXT_LENGTH

(***************************************************************************)
(* Inputs.                                                                 *)
(***************************************************************************)
\* "eV" lower-cases to a key of the mock table; "e" and "V" alone are no keys
ShortAlphabet == { "e", "V", " " }
ShortTexts == UNION { [1..n -> ShortAlphabet] : n \in 0..MaxShortLen }

\* two known words and an unknown one
Vocabulary ==
    { << "m", "e", "r", "h", "a", "b", "a" >>, << "e", "v" >>, << "k", "e", "d", "i" >> }
Separators == { << " " >>, << "\t", "\n" >> }

RECURSIVE WordTexts(_)
WordTexts(n) ==
    IF n = 0 THEN { }
    ELSE IF n = 1 THEN Vocabulary
    ELSE WordTexts(n - 1)
         \cup { t \o s \o w : t \in WordTexts(n - 1), s \in Separators, w \in Vocabulary }

\* texts of MAX_TEXT_LENGTH and MAX_TEXT_LENGTH + 1 characters: a run of one
\* character, a letter or a space, alone or after a known word
LongTexts ==
    { p \o [i \in 1..(n - Len(p)) |-> c] :
        p \in { << >>, << "e", "v", " " >> },
        c \in { "a", " " },
        n \in { MAX_TEXT_LENGTH, MAX_TEXT_LENGTH + 1 } }

\* the unknown word "a" 1 to MaxRepeat times, alone or after the known word "ev"
RepeatTexts ==
    { p \o Join(<< " " >>, [i \in 1..n |-> << "a" >>]) :
        p \in { << >>, << "e", "v", " " >> },
        n \in 1..MaxRepeat }

\* the inputs, the short ones first
TextGroups ==
    << ShortTexts, WordTexts(MaxWords) \cup Separators \cup RepeatTexts, LongTexts >>
Texts == UNION { TextGroups[g] : g \in 1..3 }

(***************************************************************************)
(* State.                                                                  *)
(***************************************************************************)
VARIABLES
    json_caught,      \* build: requests' JSONDecodeError is a RequestException
    compensated_sum,  \* build: the interpreter's sum() is compensated (3.12 on)
    environment,      \* build: the configured ENVIRONMENT
    use_mock,         \* SecureConfig.use_mock_service() as __init__ read it
    service,          \* TurkishTranslator.service: "mock" or "api"
    service_name,     \* TurkishTranslator.service_name
    pc,               \* "idle", "post", "sleep", "returned" or "raised"
    entry,            \* the method called: "translate_text", "mock.translate", "none"
    text,             \* its argument
    attempt,          \* the loop variable of APITranslationService.translate
    result,           \* the returned dictionary (empty while there is none)
    service_result,   \* the dictionary the responder's translate returned
    mockCalls,        \* calls of MockTranslationService.translate in this call
    apiCalls,         \* calls of APITranslationService.translate in this call
    trace,            \* the POSTs and sleeps of this call, in order
    sleeps,           \* the seconds of each sleep of this call, in order
    outcomes,         \* the outcome of each POST of this call, in order
    caller,           \* where translate_text was called: "demo", "admin" or "none"
    session_state,    \* st.session_state: the keys that are set, and their values
    last_call,        \* history: what the session's latest translate_text returned
    last_demo,        \* history: the same, for the calls of the demo page only
    remembered,       \* history: an earlier call of the mock and what it returned
    query_params,     \* st.query_params: the keys of the URL's query, and their values
    event,            \* the user action that started the latest render pass
    rendered          \* what the latest render pass put on the page, in order

vars == << json_caught, compensated_sum, environment, use_mock, service, service_name,
           pc, entry, text, attempt, result, service_result, mockCalls, apiCalls, trace,
           sleeps, outcomes, caller, session_state, last_call, last_demo, remembered,
           query_params, event, rendered >>

build == << json_caught, compensated_sum, environment >>
page == << caller, session_state, last_call, last_demo, query_params, event, rendered >>
translator == << use_mock, service, service_name >>
history == << trace, sleeps, outcomes >>

NoResult == << >>
NoCall == << >>
NoEvent == [ kind |-> "none", arg |-> << >> ]

RECURSIVE SumSeq(_)
SumSeq(s) == IF s = << >> THEN 0 ELSE Head(s) + SumSeq(Tail(s))

\* a clock started anew on every attempt
ElapsedLastAttempt(latency) == latency

\* time.time() - start_time, in milliseconds: the sleeps taken so far and the
\* time spent in the POSTs
Elapsed(latency) == 1000 * SumSeq(sleeps) + latency

\* no call in progress, and a session that has seen no render pass yet
Fresh ==
    /\ pc = "idle"
    /\ entry = "none"
    /\ text = << >>
    /\ attempt = 0
    /\ result = NoResult
    /\ service_result = NoResult
    /\ mockCalls = 0
    /\ apiCalls = 0
    /\ trace = << >>
    /\ sleeps = << >>
    /\ outcomes = << >>
    /\ caller = "none"
    /\ session_state = << >>
    /\ last_call = NoResult
    /\ last_demo = NoResult
    /\ remembered = NoCall
    /\ query_params = << >>
    /\ event = NoEvent
    /\ rendered = << >>

Init ==
    /\ json_caught \in BOOLEAN
    /\ compensated_sum \in BOOLEAN
    /\ environment = "development"
    /\ use_mock \in BOOLEAN
    /\ service = SelectService(use_mock)
    /\ service_name = SelectServiceName(use_mock)
    /\ Fresh

\* TurkishTranslator(): a new translator, for the flag as it is now
Construct(flag) ==
    /\ pc = "idle"
    /\ use_mock' = flag
    /\ service' = SelectService(flag)
    /\ service_name' = SelectServiceName(flag)
    /\ UNCHANGED << build, pc, entry, text, attempt, result, service_result, mockCalls,
                    apiCalls, history, page, remembered >>

\* translate_text(t) called from c, up to the return, or up to the first POST
\* when the responder is the remote one
TranslateTextFrom(c, t) ==
    /\ pc = "idle"
    /\ caller' = c
    /\ entry' = "translate_text"
    /\ text' = t
    /\ IF IsBlank(t)
       THEN /\ result' = [ success |-> FALSE, error |-> ErrEmpty ]
            /\ pc' = "returned"
            /\ UNCHANGED << service_result, mockCalls, apiCalls >>
       ELSE IF TooLong(t)
       THEN /\ result' = [ success |-> FALSE, error |-> ErrTooLong ]
            /\ pc' = "returned"
            /\ UNCHANGED << service_result, mockCalls, apiCalls >>
       ELSE IF service = "mock"
       THEN /\ mockCalls' = mockCalls + 1
            /\ service_result' = MockTranslate(compensated_sum, t)
            /\ result' = SetField(service_result', "service_used", service_name)
            /\ pc' = "returned"
            /\ UNCHANGED apiCalls
       ELSE /\ apiCalls' = apiCalls + 1
            /\ result' = NoResult
            /\ pc' = "post"
            /\ UNCHANGED << service_result, mockCalls >>
    /\ UNCHANGED << build, translator, attempt, history, session_state, last_call,
                    last_demo, remembered, query_params, rendered >>

\* translate_text(t), called on a translator outside any page
TranslateText(t) == TranslateTextFrom("none", t) /\ UNCHANGED event

\* a mock whose word lists are shared between calls: the words of the earlier
\* call are still in them
MockServiceTranslateShared(t) ==
    /\ pc = "idle"
    /\ entry' = "mock.translate"
    /\ text' = t
    /\ mockCalls' = mockCalls + 1
    /\ service_result' =
          IF remembered = NoCall THEN MockTranslate(compensated_sum, t)
          ELSE [MockTranslate(compensated_sum, remembered.text \o << " " >> \o t)
                   EXCEPT !.original_text = t]
    /\ result' = service_result'
    /\ pc' = "returned"
    /\ UNCHANGED << build, translator, attempt, apiCalls, history, page, remembered >>

\* MockTranslationService().translate(t), called directly
MockServiceTranslate(t) ==
    /\ pc = "idle"
    /\ entry' = "mock.translate"
    /\ text' = t
    /\ mockCalls' = mockCalls + 1
    /\ service_result' = MockTranslate(compensated_sum, t)
    /\ result' = service_result'
    /\ pc' = "returned"
    /\ UNCHANGED << build, translator, attempt, apiCalls, history, page, remembered >>

\* one pass of the try statement of APITranslationService.translate: the POST
\* comes to outcome o, and latency is the time spent in the POSTs so far
ApiPost(o, latency) ==
    /\ pc = "post"
    /\ trace' = Append(trace, "post")
    /\ outcomes' = Append(outcomes, o)
    /\ IF RaisesRequestException(json_caught, o)
       THEN IF attempt = max_retries - 1
            THEN /\ service_result' = ExhaustedResult(Elapsed(latency))
                 /\ result' = SetField(service_result', "service_used", service_name)
                 /\ pc' = "returned"
            ELSE /\ pc' = "sleep"
                 /\ UNCHANGED << result, service_result >>
       ELSE IF RaisesUncaught(json_caught, o)
       THEN /\ pc' = "raised"
            /\ UNCHANGED << result, service_result >>
       ELSE /\ service_result' = ResponseResult(o, Elapsed(latency))
            /\ result' = SetField(service_result', "service_used", service_name)
            /\ pc' = "returned"
    /\ UNCHANGED << build, translator, entry, text, attempt, mockCalls, apiCalls, sleeps,
                    page, remembered >>

\* time.sleep(2 ** attempt) and the next iteration of the for loop; were the
\* loop to end, translate would return None and translate_text raise on it
ApiSleep ==
    /\ pc = "sleep"
    /\ sleeps' = Append(sleeps, BackoffSeconds(attempt))
    /\ trace' = Append(trace, "sleep")
    /\ attempt' = attempt + 1
    /\ pc' = IF attempt + 1 < max_retries THEN "post" ELSE "raised"
    /\ UNCHANGED << build, translator, entry, text, result, service_result, mockCalls,
                    apiCalls, outcomes, page, remembered >>

\* a slot that is written once and then kept
SessionAfterCallKeepsFirst(state, c, r) ==
    IF c = "demo" /\ ~ Has(state, "translation_result")
    THEN SetField(SetField(state, "translation_result", r), "has_translation", TRUE)
    ELSE state

\* lines 997-998 of main_app, which follow the call of the demo page when it
\* returned r: the result goes to the session's slot.  The service test of the
\* admin panel keeps its result in a local variable (lines 1597-1606)
SessionAfterCall(state, c, r) ==
    IF c = "demo"
    THEN SetField(SetField(state, "translation_result", r), "has_translation", TRUE)
    ELSE state

\* query_params.get("page", "demo")
CurrentPage(params) == IF Has(params, "page") THEN params.page ELSE "demo"

\* main: the page function called for current_page
PageFunction(current_page) ==
    CASE current_page = "about" -> "about_page"
      [] current_page = "research" -> "research_page"
      [] current_page = "team" -> "team_page"
      [] OTHER -> "main_app"

\* an admin gate that does not look at the environment
AdminGateAnyEnvironment(state, env) ==
    IF ~ (Has(state, "admin_authenticated") /\ state.admin_authenticated) THEN "login"
    ELSE "admin_content"

\* admin_required: what the pass shows next, the error of a production
\* environment and st.stop(), the password prompt and st.stop(), or the
\* content of the admin panel
AdminGate(state, env) ==
    IF env # "development" THEN "production_error"
    ELSE IF ~ (Has(state, "admin_authenticated") /\ state.admin_authenticated) THEN "login"
    ELSE "admin_content"

\* main: what a render pass that runs to its end puts on the page
View(state, params, env) ==
    IF Has(params, "admin")
    THEN << "admin_panel", AdminGate(state, env) >>
    ELSE << "navigation_menu", PageFunction(CurrentPage(params)), "footer" >>

\* what a render pass does to the session before it handles a click: main
\* sets theme when it is absent, and so does admin_required with
\* admin_authenticated, when it gets that far
SessionAfterPass(state, params, env) ==
    LET themed == IF Has(state, "theme") THEN state ELSE SetField(state, "theme", "dark")
    IN  IF Has(params, "admin") /\ env = "development"
           /\ ~ Has(themed, "admin_authenticated")
        THEN SetField(themed, "admin_authenticated", FALSE)
        ELSE themed

\* the pass was cut by an exception in component part: what came before part,
\* part, and the exception in place of the rest
Cut(view, part) ==
    LET i == CHOOSE k \in 1..Len(view) : view[k] = part
    IN  Append(SubSeq(view, 1, i), "exception")

\* the caller takes the result (or the exception, which ends the render
\* pass); the next call starts afresh.  The service test of the admin panel
\* reads result["success"], which raises when the field is missing
Finish ==
    /\ pc \in { "returned", "raised" }
    /\ caller' = "none"
    /\ rendered' =
          IF caller = "demo"
          THEN IF pc = "returned" THEN View(session_state', query_params, environment)
               ELSE Cut(View(session_state, query_params, environment), "main_app")
          ELSE IF caller = "admin"
          THEN IF pc = "returned" /\ Has(result, "success")
               THEN View(session_state, query_params, environment)
               ELSE Cut(View(session_state, query_params, environment), "admin_content")
          ELSE rendered
    /\ session_state' = IF pc = "returned" THEN SessionAfterCall(session_state, caller, result)
                        ELSE session_state
    /\ last_call' = IF pc = "returned" /\ caller # "none" THEN result ELSE last_call
    /\ last_demo' = IF pc = "returned" /\ caller = "demo" THEN result ELSE last_demo
    /\ remembered' = IF remembered # NoCall /\ mockCalls = 1 /\ text # remembered.text
                     THEN [remembered EXCEPT !.between = TRUE]
                     ELSE remembered
    /\ pc' = "idle"
    /\ entry' = "none"
    /\ text' = << >>
    /\ attempt' = 0
    /\ result' = NoResult
    /\ service_result' = NoResult
    /\ mockCalls' = 0
    /\ apiCalls' = 0
    /\ trace' = << >>
    /\ sleeps' = << >>
    /\ outcomes' = << >>
    /\ UNCHANGED << build, translator, query_params, event >>

Next ==
    \/ \E flag \in BOOLEAN : Construct(flag)
    \/ \E g \in 1..3 : \E t \in TextGroups[g] : TranslateText(t)
    \/ \E g \in 1..3 : \E t \in TextGroups[g] : MockServiceTranslate(t)
    \/ \E o \in Outcomes, latency \in 0..MaxLatencyMs : ApiPost(o, latency)
    \/ ApiSleep
    \/ Finish

Spec == Init /\ [][Next]_vars

(***************************************************************************)
(* The mock responder over several calls: one earlier call is kept, text   *)
(* and result, to compare later calls with.                                *)
(***************************************************************************)
\* the call of the mock that has just returned is the one kept from now on
Remember ==
    /\ pc = "returned"
    /\ mockCalls = 1
    /\ remembered' = [ text |-> text, result |-> service_result, between |-> FALSE ]
    /\ UNCHANGED << build, translator, pc, entry, text, attempt, result, service_result,
                    mockCalls, apiCalls, history, page >>

MockTexts == ShortTexts \cup Separators \cup RepeatTexts

\* the translator's responder is the mock; the mock makes no request, so the
\* version of requests is left at one value
InitMock == Init /\ use_mock /\ json_caught

NextMock ==
    \/ \E t \in MockTexts : MockServiceTranslate(t)
    \/ \E t \in MockTexts : TranslateText(t)
    \/ Remember
    \/ Finish

SpecMock == InitMock /\ [][NextMock]_vars

(***************************************************************************)
(* The pages of one session: the demo page (main_app) and the admin panel  *)
(* (admin_panel behind admin_required).  A render pass is one action, or   *)
(* the steps of the translate_text call it makes.                          *)
(***************************************************************************)
\* SecureConfig.get_admin_password(), and what a user may type
AdminPassword == "secret"
Passwords == { "secret", "guess" }

\* the values of ENVIRONMENT
Environments == { "development", "production" }

\* st.session_state.admin_authenticated, false while the key is not set
Authenticated ==
    Has(session_state, "admin_authenticated") /\ session_state.admin_authenticated

\* the state without the keys in keys
Without(state, keys) == [k \in DOMAIN state \ keys |-> state[k]]

\* the latest pass put part on the page
Shown(part) == \E i \in 1..Len(rendered) : rendered[i] = part

\* what a render pass that makes no translate_text call leaves alone
offstage == << build, translator, pc, entry, text, attempt, result, service_result,
               mockCalls, apiCalls, history, caller, last_call, last_demo, remembered >>

\* the query strings of the model: none, every value of page alone, and
\* admin alone and with a page
PageValues == { "demo", "about", "research", "team", "admin", "other" }
Urls ==
    { << >> } \cup { ("page" :> p) : p \in PageValues }
    \cup { ("admin" :> ""), ("admin" :> "") @@ ("page" :> "about") }

\* the session is opened, or taken, at a URL with the query string params
OpenUrl(params) ==
    /\ pc = "idle"
    /\ event' = [ kind |-> "open", arg |-> params ]
    /\ query_params' = params
    /\ session_state' = SessionAfterPass(session_state, params, environment)
    /\ rendered' = View(session_state', params, environment)
    /\ UNCHANGED offstage

\* navigation_menu: the button of page p clicked; the pass sets the query
\* parameter and reruns
NavClick(p) ==
    /\ pc = "idle"
    /\ ~ Has(query_params, "admin")
    /\ Shown("navigation_menu")
    /\ event' = [ kind |-> "navigate", arg |-> p ]
    /\ query_params' = SetField(query_params, "page", p)
    /\ session_state' = SessionAfterPass(session_state, query_params', environment)
    /\ rendered' = View(session_state', query_params', environment)
    /\ UNCHANGED offstage

\* navigation_menu: the theme button clicked; the pass flips the theme and
\* reruns
ThemeClick ==
    /\ pc = "idle"
    /\ ~ Has(query_params, "admin")
    /\ Shown("navigation_menu")
    /\ event' = [ kind |-> "theme", arg |-> << >> ]
    /\ session_state' =
          SetField(session_state, "theme",
                   IF session_state.theme = "dark" THEN "light" ELSE "dark")
    /\ rendered' = View(session_state', query_params, environment)
    /\ UNCHANGED << offstage, query_params >>

\* a demo page that hands every text to translate_text
DemoAcceptsAny(t) == Len(t) >= 0
\* main_app line 975: input_text.strip()
DemoAccepts(t) == Strip(t) # << >>

\* main_app: TRANSLATE clicked with t in the text area.  The button is
\* disabled for an empty text and for one over MAX_TEXT_LENGTH; a text of
\* whitespace only gets a warning and no call
DemoTranslate(t) ==
    /\ pc = "idle"
    /\ ~ Has(query_params, "admin")
    /\ Shown("main_app")
    /\ 0 < Len(t) /\ Len(t) <= MAX_TEXT_LENGTH
    /\ event' = [ kind |-> "translate", arg |-> t ]
    /\ IF DemoAccepts(t)
       THEN TranslateTextFrom("demo", t)
       ELSE /\ rendered' = View(session_state, query_params, environment)
            /\ UNCHANGED << offstage, session_state, query_params >>

\* a login that takes every password but the empty one
PasswordAcceptedNonEmpty(password) == password # ""
\* admin_required line 16: password == SecureConfig.get_admin_password()
PasswordAccepted(password) == password = AdminPassword

\* admin_required: Login clicked with the password typed
AdminLogin(password) ==
    /\ pc = "idle"
    /\ Has(query_params, "admin")
    /\ Shown("login")
    /\ AdminGate(session_state, environment) = "login"
    /\ event' = [ kind |-> "login", arg |-> password ]
    /\ session_state' = IF PasswordAccepted(password)
                        THEN SetField(session_state, "admin_authenticated", TRUE)
                        ELSE session_state
    /\ rendered' = View(session_state', query_params, environment)
    /\ UNCHANGED << offstage, query_params >>

\* admin_panel: Sign Out clicked
AdminSignOut ==
    /\ pc = "idle"
    /\ Has(query_params, "admin")
    /\ Shown("admin_content") /\ ~ Shown("exception")
    /\ AdminGate(session_state, environment) = "admin_content"
    /\ event' = [ kind |-> "sign_out", arg |-> << >> ]
    /\ session_state' = SetField(session_state, "admin_authenticated", FALSE)
    /\ rendered' = View(session_state', query_params, environment)
    /\ UNCHANGED << offstage, query_params >>

\* admin_panel: Run Test clicked with t as the test input; an empty input
\* gets a warning and no call
AdminRunTest(t) ==
    /\ pc = "idle"
    /\ Has(query_params, "admin")
    /\ Shown("admin_content")
    /\ AdminGate(session_state, environment) = "admin_content"
    /\ event' = [ kind |-> "run_test", arg |-> t ]
    /\ IF t # << >>
       THEN TranslateTextFrom("admin", t)
       ELSE /\ rendered' = View(session_state, query_params, environment)
            /\ UNCHANGED << offstage, session_state, query_params >>

\* a clearing that forgets has_translation, and one that empties the session
ClearedResultOnly(state) == Without(state, { "translation_result" })
ClearedAll(state) == Without(state, DOMAIN state)
\* admin_panel lines 1617-1620: each of the two keys is deleted when present
Cleared(state) == Without(state, { "translation_result", "has_translation" })

\* admin_panel: Clear Session clicked
ClearSession ==
    /\ pc = "idle"
    /\ Has(query_params, "admin")
    /\ Shown("admin_content") /\ ~ Shown("exception")
    /\ AdminGate(session_state, environment) = "admin_content"
    /\ event' = [ kind |-> "clear", arg |-> << >> ]
    /\ session_state' = Cleared(session_state)
    /\ rendered' = View(session_state', query_params, environment)
    /\ UNCHANGED << offstage, query_params >>

\* the texts typed into the pages, and what the POSTs of their calls come to
SessionTexts == { << >>, << " " >>, << "e" >>, << "e", "V" >> }
SessionOutcomes ==
    { TransportFailure,
      Response(200, "dict", [ success |-> TRUE, translated_text |-> << "o", "k" >> ]),
      Response(200, "nondict", NoBody),
      Response(500, "invalid", NoBody) }

\* a new session, in either environment; the session logic does not depend
\* on the versions of the libraries, which are left at one value
InitSession ==
    /\ json_caught = TRUE
    /\ compensated_sum = TRUE
    /\ environment \in Environments
    /\ use_mock \in BOOLEAN
    /\ service = SelectService(use_mock)
    /\ service_name = SelectServiceName(use_mock)
    /\ Fresh

NextSession ==
    \/ \E flag \in BOOLEAN : Construct(flag)
    \/ \E params \in Urls : OpenUrl(params)
    \/ \E p \in { "demo", "about", "research", "team" } : NavClick(p)
    \/ ThemeClick
    \/ \E t \in SessionTexts : DemoTranslate(t)
    \/ \E p \in Passwords : AdminLogin(p)
    \/ AdminSignOut
    \/ \E t \in SessionTexts : AdminRunTest(t)
    \/ ClearSession
    \/ \E o \in SessionOutcomes : ApiPost(o, 0)
    \/ ApiSleep
    \/ Finish

SpecSession == InitSession /\ [][NextSession]_vars

(***************************************************************************)
(* Properties.                                                             *)
(***************************************************************************)
\* every character of t is whitespace (so is the empty text)
AllSpace(t) == \A i \in 1..Len(t) : IsSpace(t[i])

InTranslateText == entry = "translate_text"
Finished == pc \in { "returned", "raised" }
LastOutcome == outcomes[Len(outcomes)]
AllTransport == \A i \in 1..Len(outcomes) : outcomes[i].kind = "transport"

\* C1: translate_text on an empty or whitespace-only text returns at once a
\* result with success = false and an error message, and neither responder's
\* translate is called (no POST either), whichever responder the translator has.
C1_BlankInputFailsValidation ==
    (InTranslateText /\ AllSpace(text)) =>
        /\ pc = "returned"
        /\ Has(result, "success") /\ result.success = FALSE
        /\ Has(result, "error") /\ result.error # << >>
        /\ mockCalls = 0 /\ apiCalls = 0 /\ trace = << >>

\* a whitespace-only, non-empty text was refused by a translator whose
\* responder is the remote one
C1_Witness ==
    /\ InTranslateText /\ pc = "returned"
    /\ Len(text) > 0 /\ AllSpace(text)
    /\ service = "api"
    /\ result.success = FALSE

\* C2: for a non-blank text, a length of exactly MAX_TEXT_LENGTH passes
\* validation (a responder is called) and every greater length, the length
\* MAX_TEXT_LENGTH + 1 included, returns success = false with the 'Text too
\* long' error without calling a responder.
C2_LengthBoundary ==
    (InTranslateText /\ ~ AllSpace(text)) =>
        /\ Len(text) = MAX_TEXT_LENGTH =>
              /\ mockCalls + apiCalls = 1
              /\ (pc = "returned" /\ Has(result, "error")) => result.error # ErrTooLong
        /\ Len(text) > MAX_TEXT_LENGTH =>
              /\ pc = "returned"
              /\ result = [ success |-> FALSE, error |-> ErrTooLong ]
              /\ mockCalls = 0 /\ apiCalls = 0 /\ trace = << >>

\* a text of exactly MAX_TEXT_LENGTH characters was translated by the mock
C2_Witness ==
    /\ InTranslateText /\ pc = "returned"
    /\ ~ AllSpace(text) /\ Len(text) = MAX_TEXT_LENGTH
    /\ mockCalls = 1 /\ result.success = TRUE

\* C3: for a text that passes validation, translate_text calls translate on
\* exactly one responder exactly once, the mock when the flag was on at
\* construction and the remote one otherwise, and the returned result carries
\* the name of the responder that was called as service_used.
C3_ExactlyOneResponderOnce ==
    (InTranslateText /\ ~ AllSpace(text) /\ Len(text) <= MAX_TEXT_LENGTH) =>
        /\ mockCalls + apiCalls = 1
        /\ use_mock => (mockCalls = 1 /\ trace = << >>)
        /\ ~ use_mock => apiCalls = 1
        /\ pc = "returned" =>
              /\ Has(result, "service_used")
              /\ result.service_used =
                    IF mockCalls = 1 THEN MockServiceName ELSE ApiServiceName

\* the remote responder served a call on its second attempt
C3_Witness ==
    /\ InTranslateText /\ pc = "returned"
    /\ apiCalls = 1 /\ mockCalls = 0 /\ Len(outcomes) = 2
    /\ result.service_used = ApiServiceName

\* C4: when every attempt ends in a transport failure the remote responder
\* issues exactly 3 POSTs, never a fourth, and returns success = false with
\* 'Cannot connect to translation service'.
C4_ExhaustedRetries ==
    (apiCalls = 1 /\ AllTransport) =>
        /\ Len(outcomes) <= 3
        /\ Finished =>
              /\ pc = "returned"
              /\ Len(outcomes) = 3
              /\ result.success = FALSE
              /\ result.error = ErrConnect

\* three transport failures in a row, and the call has returned
C4_Witness ==
    /\ pc = "returned" /\ apiCalls = 1
    /\ Len(outcomes) = 3 /\ AllTransport
    /\ result.error = ErrConnect

\* C5: the sleep after failed attempt k (from 0) is 2^k seconds (1 s, then
\* 2 s); POSTs and sleeps alternate, so consecutive attempts are separated by
\* exactly one sleep; and no sleep follows the last attempt.
C5_BackoffGeometric ==
    /\ \A k \in 0..(Len(sleeps) - 1) : sleeps[k + 1] = 2 ^ k
    /\ \A i \in 1..Len(trace) : trace[i] = IF i % 2 = 1 THEN "post" ELSE "sleep"
    /\ Len(sleeps) = Len(trace) \div 2
    /\ Len(outcomes) = (Len(trace) + 1) \div 2
    /\ (Finished /\ trace # << >>) => trace[Len(trace)] = "post"

\* a call that slept 1 s and then 2 s and returned after its third failure
C5_Witness ==
    /\ pc = "returned"
    /\ sleeps = << 1, 2 >>
    /\ trace = << "post", "sleep", "post", "sleep", "post" >>
    /\ LastOutcome.kind = "transport"

\* C6: an attempt that receives a response with a non-2xx status is the last
\* one: the responder returns at once success = false with 'Translation
\* service is currently unavailable', without a further POST or a sleep,
\* whatever the attempt number.
C6_NoRetryOnNon2xx ==
    \A i \in 1..Len(outcomes) :
        (outcomes[i].kind = "response" /\ outcomes[i].status \notin 200..299) =>
            /\ i = Len(outcomes)
            /\ pc = "returned"
            /\ result.success = FALSE
            /\ result.error = ErrUnavailable
            /\ Len(sleeps) = i - 1
            /\ trace[Len(trace)] = "post"

\* a 500 on the second attempt, after one transport failure
C6_Witness ==
    /\ pc = "returned" /\ Len(outcomes) = 2
    /\ outcomes[1].kind = "transport"
    /\ outcomes[2].kind = "response" /\ outcomes[2].status = 500
    /\ result.error = ErrUnavailable

\* C7: a further attempt (and a sleep) follows only an attempt that ended in a
\* transport failure; an attempt that received a response, whatever its status
\* or body, is never followed by another.
C7_RetryOnlyAfterTransportFailure ==
    /\ \A i \in 1..(Len(outcomes) - 1) : outcomes[i].kind = "transport"
    /\ pc = "sleep" => LastOutcome.kind = "transport"

\* C8: every result translate_text returns has a translated_text field when
\* its success is true and an error field when its success is false.
C8_SuccessOrError ==
    (InTranslateText /\ pc = "returned") =>
        /\ (Has(result, "success") /\ result.success = TRUE) => Has(result, "translated_text")
        /\ (Has(result, "success") /\ result.success = FALSE) => Has(result, "error")

\* C9: every returned result that carries a confidence field has a confidence
\* in the closed interval [0, 1].
C9_ConfidenceInUnitInterval ==
    (pc = "returned" /\ Has(result, "confidence")) =>
        /\ DLeq(DZero, result.confidence)
        /\ DLeq(result.confidence, DOne)

\* C10: when the text has at least one word and every word, lower-cased, is a
\* key of the mock table, the mock's translated_text consists of the table's
\* values for the words, in order and none bracketed, recognized_words equals
\* word_count, and the confidence is strictly above 0.3; "merhaba ev" gives
\* "hello house".
C10_KnownVocabulary ==
    LET words == Split(Lower(text))
    IN  (/\ pc = "returned" /\ mockCalls = 1
         /\ words # << >>
         /\ \A i \in 1..Len(words) : words[i] \in DOMAIN mock_translations) =>
            /\ Split(result.translated_text)
                  = [i \in 1..Len(words) |-> mock_translations[words[i]]]
            /\ \A i \in 1..Len(result.translated_text) :
                  result.translated_text[i] \notin { "[", "]" }
            /\ result.word_count = Len(words)
            /\ result.recognized_words = result.word_count
            /\ DLess(D_0_3, result.confidence)
            /\ text = << "m", "e", "r", "h", "a", "b", "a", " ", "e", "v" >> =>
                  result.translated_text
                     = << "h", "e", "l", "l", "o", " ", "h", "o", "u", "s", "e" >>

\* the mock, called directly, has translated "merhaba ev"
C10_Witness ==
    /\ pc = "returned" /\ entry = "mock.translate"
    /\ text = << "m", "e", "r", "h", "a", "b", "a", " ", "e", "v" >>
    /\ result.recognized_words = 2

\* C11: for a text with at least one word none of whose lower-cased words is
\* a key of the mock table, the mock's translated_text is the lower-cased
\* words, each in square brackets, recognized_words is 0 and the confidence
\* equals 0.3; and no text with at least one word gets a confidence below 0.3.
C11_UnknownVocabulary ==
    LET words == Split(Lower(text))
    IN  (pc = "returned" /\ mockCalls = 1 /\ words # << >>) =>
            /\ (\A i \in 1..Len(words) : words[i] \notin DOMAIN mock_translations) =>
                  /\ result.translated_text
                        = Join(<< " " >>, [i \in 1..Len(words) |->
                                              << "[" >> \o words[i] \o << "]" >>])
                  /\ result.recognized_words = 0
                  /\ result.confidence = D_0_3
            /\ DLeq(D_0_3, result.confidence)

\* n * x of an integer n (0 <= n < 2^10) and a double x
DScale(n, x) == Round53(DNorm(<< n * x[1], n * x[2], n * x[3] >>))

\* (r * (MOCK_CONFIDENCE_THRESHOLD + 0.2) + (w - r) * 0.3) / w, in doubles
MeanScore(w, r) ==
    DDiv(DAdd(DScale(r, DAdd(MOCK_CONFIDENCE_THRESHOLD, D_0_2)), DScale(w - r, D_0_3)), w)

\* C12: the mock's confidence for a text of w > 0 words, r of them keys of the
\* mock table, is (r * (MOCK_CONFIDENCE_THRESHOLD + 0.2) + (w - r) * 0.3) / w,
\* and its processing_time is MOCK_PROCESSING_TIME for every text.
C12_MeanConfidence ==
    LET words == Split(Lower(text))
        w == Len(words)
        r == Cardinality({i \in 1..w : words[i] \in DOMAIN mock_translations})
    IN  (pc = "returned" /\ mockCalls = 1) =>
            /\ result.processing_time = MOCK_PROCESSING_TIME
            /\ w > 0 => result.confidence = MeanScore(w, r)

\* C13: MockTranslationService.translate has no failure path: for every text,
\* the empty and the whitespace-only ones passed to it directly included, it
\* returns, and what it returns has success = true and no error field.
C13_MockNeverFails ==
    mockCalls = 1 =>
        /\ pc = "returned"
        /\ Has(result, "success") /\ result.success = TRUE
        /\ ~ Has(result, "error")

\* the mock, called directly with a whitespace-only text, returned success
C13_Witness ==
    /\ entry = "mock.translate" /\ pc = "returned"
    /\ Len(text) > 0 /\ AllSpace(text)
    /\ result.success = TRUE /\ result.word_count = 0

\* the call of the remote responder returned on a 200 response with a JSON body
ReturnedOn200 ==
    /\ pc = "returned" /\ apiCalls = 1
    /\ LastOutcome.kind = "response" /\ LastOutcome.status = 200
    /\ LastOutcome.json # "invalid"

\* C14: the result APITranslationService.translate returns on a 200 response
\* is the JSON body of that response with processing_time set to the locally
\* measured time: it has the fields of the body and processing_time, no field
\* of the body is missing, every field other than processing_time has the
\* value the body gave it, and a processing_time of the body is replaced.
C14_BodyPassedThrough ==
    ReturnedOn200 =>
        LET body == LastOutcome.body
        IN  /\ DOMAIN service_result = DOMAIN body \cup { "processing_time" }
            /\ \A f \in DOMAIN body \ { "processing_time" } : service_result[f] = body[f]
            /\ \E latency \in 0..MaxLatencyMs :
                  service_result.processing_time = 1000 * SumSeq(sleeps) + latency

\* a 200 body with a processing_time and a service_used of its own came back
\* with the measured time and the rest as it was
C14_Witness ==
    /\ ReturnedOn200
    /\ Has(LastOutcome.body, "processing_time")
    /\ service_result.processing_time # LastOutcome.body.processing_time
    /\ service_result.service_used = "upstream"
    /\ service_result.confidence = LastOutcome.body.confidence

\* C15: translate_text never raises and never returns nothing, whatever the
\* text and whatever the POSTs come to; and a call that failed (validation, a
\* response other than 200, or transport failures to the last attempt)
\* returns success = false with a non-empty error message.
C15_NoFailureIsFatal ==
    InTranslateText =>
        /\ pc # "raised"
        /\ pc = "returned" =>
              /\ result # NoResult
              /\ ( \/ (outcomes = << >> /\ mockCalls = 0)
                    \/ (outcomes # << >> /\ LastOutcome.status # 200) ) =>
                    /\ Has(result, "success") /\ result.success = FALSE
                    /\ Has(result, "error") /\ result.error # << >>

\* C16: the result APITranslationService.translate returns for a response
\* with a non-2xx status does not depend on the status or on the body: apart
\* from processing_time it is success = false with the one constant message,
\* so two runs that differ only in the non-2xx status and body received
\* return the same success and error.
C16_GenericFailure ==
    (pc = "returned" /\ apiCalls = 1
        /\ LastOutcome.kind = "response" /\ LastOutcome.status \notin 200..299) =>
        /\ DOMAIN service_result = { "success", "error", "processing_time" }
        /\ service_result.success = FALSE
        /\ service_result.error = << "Translation service is currently unavailable" >>

\* a 404 whose body is a JSON object with an error message of its own
C16_Witness ==
    /\ pc = "returned" /\ apiCalls = 1
    /\ LastOutcome.status = 404 /\ LastOutcome.json = "dict"
    /\ LastOutcome.body.error # service_result.error

C18_SlotHoldsLatestCall ==
    Has(session_state, "translation_result") =>
        session_state.translation_result = last_call

\* C18, corrected: there is one slot, and when it is set it holds what the
\* latest translate_text call of the demo page that returned has returned,
\* with has_translation true; the service test of the admin panel does not
\* write it.
C18_SlotHoldsLatestDemoCall ==
    /\ Has(session_state, "translation_result") =>
          /\ session_state.translation_result = last_demo
          /\ Has(session_state, "has_translation") /\ session_state.has_translation
    /\ Has(session_state, "has_translation") => Has(session_state, "translation_result")

\* the demo page translated, then the service test of the admin panel got a
\* different result, and the slot still holds the demo page's
C18_Witness ==
    /\ pc = "idle"
    /\ Has(session_state, "translation_result")
    /\ session_state.translation_result = last_demo
    /\ last_call # last_demo
    /\ Has(last_call, "success") /\ last_call.success = TRUE

\* C19: when the first k attempts (k = 1 or 2) of the remote responder end in
\* a transport failure and attempt k + 1 receives a 200 response with a JSON
\* object, the responder returns after exactly k + 1 POSTs and k sleeps, and
\* its result is that body with processing_time set to the time elapsed since
\* the start of the call, sleeps included: but for processing_time it is the
\* result of a call whose first attempt received the response.
C19_SuccessAfterRetries ==
    \A k \in 1..2 :
        (/\ apiCalls = 1
         /\ Len(outcomes) = k + 1
         /\ \A i \in 1..k : outcomes[i].kind = "transport"
         /\ LastOutcome.kind = "response" /\ LastOutcome.status = 200
         /\ LastOutcome.json = "dict") =>
            /\ pc = "returned"
            /\ Cardinality({i \in 1..Len(trace) : trace[i] = "post"}) = k + 1
            /\ Cardinality({i \in 1..Len(trace) : trace[i] = "sleep"}) = k
            /\ Len(sleeps) = k
            /\ Without(service_result, { "processing_time" })
                  = Without(ResponseResult(LastOutcome, 0), { "processing_time" })
            /\ \E latency \in 0..MaxLatencyMs :
                  service_result.processing_time = 1000 * (2 ^ k - 1) + latency

\* two transport failures, then a 200 whose body is returned
C19_Witness ==
    /\ pc = "returned" /\ apiCalls = 1
    /\ Len(outcomes) = 3
    /\ outcomes[1].kind = "transport" /\ outcomes[2].kind = "transport"
    /\ LastOutcome.status = 200 /\ LastOutcome.json = "dict"
    /\ sleeps = << 1, 2 >>
    /\ Has(service_result, "translated_text")
    /\ service_result.translated_text = LastOutcome.body.translated_text

\* C20: every call of APITranslationService.translate comes to an end by
\* returning a result, after at most max_retries (3) POSTs and at most
\* max_retries - 1 sleeps, so that the render pass that made the call goes on.
C20_ReturnsWithinBounds ==
    apiCalls = 1 =>
        /\ Len(outcomes) <= max_retries
        /\ Len(sleeps) <= max_retries - 1
        /\ Finished => (pc = "returned" /\ service_result # NoResult)

\* C21: the content of the admin panel is on the page, and the service test,
\* Clear Session or Sign Out handled, only in the development environment
\* with admin_authenticated true; in any other environment a pass at the
\* admin URL stops at the error before the password prompt, no login is ever
\* handled and admin_authenticated never becomes true.
C21_AdminGated ==
    /\ Shown("admin_content") => (environment = "development" /\ Authenticated)
    /\ event.kind \in { "run_test", "clear" } =>
          (environment = "development" /\ Authenticated)
    /\ event.kind = "sign_out" => environment = "development"
    /\ environment # "development" =>
          /\ ~ Shown("login") /\ ~ Shown("admin_content")
          /\ event.kind # "login"
          /\ ~ Authenticated
          /\ (Has(query_params, "admin") /\ rendered # << >>) =>
                rendered = << "admin_panel", "production_error" >>

\* the admin URL was opened in a production environment
C21_Witness ==
    /\ environment = "production"
    /\ Has(query_params, "admin")
    /\ event.kind = "open"
    /\ rendered = << "admin_panel", "production_error" >>

\* C22: admin_authenticated (false while not set) goes from false to true
\* only in the pass that handles a Login click with the configured password,
\* and from true to false only in the pass that handles Sign Out; after a
\* Login click with another password it is false, after Sign Out it is
\* false, and no other step (URL change, navigation, theme, translate, the
\* steps of a call, Clear Session) changes it.
C22_AuthenticatedOnlyByLogin ==
    /\ [](event.kind = "login" /\ event.arg # AdminPassword => ~ Authenticated)
    /\ [](event.kind = "sign_out" => ~ Authenticated)
    /\ [][ /\ (~ Authenticated /\ Authenticated') =>
                (pc = "idle" /\ event'.kind = "login" /\ event'.arg = AdminPassword)
           /\ (Authenticated /\ ~ Authenticated') =>
                (pc = "idle" /\ event'.kind = "sign_out")
         ]_vars

\* a Login click with the configured password has set the flag
C22_Witness ==
    /\ event.kind = "login" /\ event.arg = AdminPassword
    /\ Authenticated
    /\ rendered = << "admin_panel", "admin_content" >>

\* C23: at the end of every render pass has_translation is set exactly when
\* translation_result is, and is true when set: a translate of the demo page
\* stores both, Clear Session removes both, and nothing sets or removes one
\* of the two alone; so has_translation true implies translation_result set.
C23_SlotAndFlagTogether ==
    /\ Has(session_state, "has_translation") = Has(session_state, "translation_result")
    /\ Has(session_state, "has_translation") => session_state.has_translation = TRUE
    /\ event.kind = "clear" => ~ Has(session_state, "has_translation")

\* a result stored by the demo page in a session that has opened the admin panel
C23_Witness ==
    /\ pc = "idle" /\ event.kind = "translate"
    /\ Has(session_state, "has_translation") /\ session_state.has_translation
    /\ Has(session_state, "translation_result")
    /\ Has(session_state, "admin_authenticated")
    /\ session_state.translation_result = last_demo

\* C24: translate_text tests emptiness before length: a whitespace-only text
\* longer than MAX_TEXT_LENGTH is refused with 'Please enter some text to
\* translate' and not with 'Text too long', and every refused text gets a
\* result with exactly one of the two errors, the first for a blank text and
\* the second for a non-blank one.
C24_EmptinessBeforeLength ==
    (InTranslateText /\ pc = "returned" /\ mockCalls + apiCalls = 0) =>
        /\ DOMAIN result = { "success", "error" }
        /\ result.success = FALSE
        /\ ErrEmpty # ErrTooLong
        /\ result.error = (IF AllSpace(text) THEN ErrEmpty ELSE ErrTooLong)
        /\ (AllSpace(text) \/ Len(text) > MAX_TEXT_LENGTH)

\* a run of MAX_TEXT_LENGTH + 1 spaces was refused as empty
C24_Witness ==
    /\ InTranslateText /\ pc = "returned"
    /\ AllSpace(text) /\ Len(text) = MAX_TEXT_LENGTH + 1
    /\ result = [ success |-> FALSE, error |-> ErrEmpty ]

\* C25: a result returned by translate_text has the field service_used exactly
\* when a responder's translate was called: every result a responder produced
\* has it, the failure results of the remote responder included, and the
\* results of the two validation failures do not.
C25_ServiceUsedIffResponder ==
    (InTranslateText /\ pc = "returned") =>
        /\ Has(result, "service_used") <=> (mockCalls + apiCalls = 1)
        /\ mockCalls + apiCalls <= 1
        /\ Has(result, "service_used") =>
              result.service_used = (IF use_mock THEN MockServiceName ELSE ApiServiceName)

\* the remote responder gave up after max_retries transport failures and its
\* failure result was returned with service_used
C25_Witness ==
    /\ InTranslateText /\ pc = "returned"
    /\ apiCalls = 1 /\ Len(outcomes) = max_retries /\ AllTransport
    /\ Has(result, "success") /\ result.success = FALSE
    /\ Has(result, "service_used") /\ result.service_used = ApiServiceName

\* the translation slot of a session: the two keys main_app stores, where set
Slot(state) ==
    [ k \in { "translation_result", "has_translation" } \cap DOMAIN state |-> state[k] ]

\* C26: a click on TRANSLATE in the demo page with a text of whitespace only
\* makes no translate_text call and leaves translation_result and
\* has_translation as they were, the page being rendered again with the
\* earlier result; and every translate_text call made from the demo page has
\* a text with at least one non-whitespace character.
C26_BlankClickMakesNoCall ==
    /\ [][ (pc = "idle" /\ event'.kind = "translate" /\ AllSpace(event'.arg)) =>
              /\ pc' = "idle" /\ caller' = "none" /\ entry' = "none"
              /\ mockCalls' = 0 /\ apiCalls' = 0 /\ trace' = << >>
              /\ Slot(session_state') = Slot(session_state)
              /\ last_demo' = last_demo
              /\ rendered' = << "navigation_menu", "main_app", "footer" >> ]_vars
    /\ [](caller = "demo" =>
              /\ InTranslateText /\ ~ AllSpace(text)
              /\ event = [ kind |-> "translate", arg |-> text ])

\* TRANSLATE was clicked with a whitespace-only text while an earlier result
\* was in the session: the result is still there and the page is whole
C26_Witness ==
    /\ pc = "idle" /\ event.kind = "translate"
    /\ Len(event.arg) > 0 /\ AllSpace(event.arg)
    /\ Has(session_state, "translation_result")
    /\ session_state.translation_result = last_demo
    /\ rendered = << "navigation_menu", "main_app", "footer" >>

\* the number of words of t: the characters that end a run of non-whitespace
CountWords(t) ==
    Cardinality({ i \in 1..Len(t) :
                    ~ IsSpace(t[i]) /\ (i = Len(t) \/ IsSpace(t[i + 1])) })

\* w is written in square brackets
Bracketed(w) == Len(w) >= 2 /\ w[1] = "[" /\ w[Len(w)] = "]"

\* C27: the mock's result has word_count equal to the number of
\* whitespace-separated words of the text, recognized_words between 0 and
\* word_count, a translated_text of exactly word_count words of which exactly
\* word_count - recognized_words are in square brackets, and original_text
\* equal to the text as given, not lower-cased.
C27_MockCounts ==
    (pc = "returned" /\ mockCalls = 1) =>
        LET out == Split(result.translated_text)
        IN  /\ result.word_count = CountWords(text)
            /\ 0 <= result.recognized_words
            /\ result.recognized_words <= result.word_count
            /\ Len(out) = result.word_count
            /\ Cardinality({ i \in 1..Len(out) : Bracketed(out[i]) })
                  = result.word_count - result.recognized_words
            /\ result.original_text = text

\* the mock, called directly, has translated " eV": one word, a key of the
\* table once lower-cased, and original_text keeps the space and the capital
C27_Witness ==
    /\ pc = "returned" /\ entry = "mock.translate"
    /\ text = << " ", "e", "V" >>
    /\ result.original_text = text /\ text # Lower(text)
    /\ result.word_count = 1 /\ result.recognized_words = 1
    /\ result.translated_text = << "h", "o", "u", "s", "e" >>

\* the page function the claim gives a value of the page parameter
RoutedPage(params) ==
    IF Has(params, "page") /\ params.page \in { "about", "research", "team" }
    THEN CASE params.page = "about" -> "about_page"
           [] params.page = "research" -> "research_page"
           [] params.page = "team" -> "team_page"
    ELSE "main_app"

\* C28: in every render pass, when the query parameters contain admin the
\* admin panel is rendered, and neither the navigation menu nor a page nor the
\* footer, whatever the page parameter is; otherwise the navigation menu is
\* followed by exactly one of the about, research, team and demo pages, and
\* then by the footer, a missing or unrecognised page value ("admin"
\* included) giving the demo page.
C28_Routing ==
    rendered # << >> =>
        IF Has(query_params, "admin")
        THEN /\ rendered[1] = "admin_panel"
             /\ \A part \in { "navigation_menu", "about_page", "research_page",
                              "team_page", "main_app", "footer" } : ~ Shown(part)
        ELSE rendered = << "navigation_menu", RoutedPage(query_params), "footer" >>

\* the same for the passes that run to their end
C28_RoutingOfWholePasses == ~ Shown("exception") => C28_Routing

\* sessions with any of four keys set, each to its own name
SessionShapes ==
    { [k \in K |-> k] :
        K \in SUBSET { "translation_result", "has_translation", "theme",
                       "admin_authenticated" } }

\* C29: Clear Session removes translation_result and has_translation from the
\* session and leaves every other field as it was, admin_authenticated and
\* theme in particular; it does so when one or both of the two are absent
\* already; and clearing twice gives what clearing once gives.
C29_ClearSessionFrame ==
    /\ [][ (pc = "idle" /\ event'.kind = "clear") =>
              /\ DOMAIN session_state'
                    = DOMAIN session_state \ { "translation_result", "has_translation" }
              /\ \A k \in DOMAIN session_state' : session_state'[k] = session_state[k]
              /\ Has(session_state', "admin_authenticated")
              /\ session_state'.admin_authenticated = TRUE
              /\ Has(session_state', "theme")
              /\ event.kind = "clear" => session_state' = session_state ]_vars
    /\ [](\A s \in SessionShapes :
              /\ DOMAIN Cleared(s) = DOMAIN s \ { "translation_result", "has_translation" }
              /\ \A k \in DOMAIN Cleared(s) : Cleared(s)[k] = s[k]
              /\ Cleared(Cleared(s)) = Cleared(s))

\* Clear Session was clicked in a session that has had a result of the demo
\* page: the result is gone, the admin is still signed in, the theme is kept
C29_Witness ==
    /\ pc = "idle" /\ event.kind = "clear"
    /\ last_demo # NoResult
    /\ ~ Has(session_state, "translation_result")
    /\ ~ Has(session_state, "has_translation")
    /\ Authenticated
    /\ Has(session_state, "theme") /\ session_state.theme = "light"
    /\ rendered = << "admin_panel", "admin_content" >>
====
